---- MODULE Spec2Model ----
(***************************************************************************)
(* Model of the SensorLinx Home Assistant integration: the polling         *)
(* coordinator (coordinator.py), the entity views over its snapshot        *)
(* (binary_sensor.py, sensor.py, switch.py, climate.py), the commands of   *)
(* the switch and climate entities, and the config flow (config_flow.py).  *)
(*                                                                         *)
(* Spec runs the coordinator's refresh, the platform setup and the entity  *)
(* commands together. SpecEntry runs the config flow's user step and, once *)
(* the entry exists, the platform setup and the entity reads over the      *)
(* snapshots a refresh can publish.                                        *)
(*                                                                         *)
(* One step of the model is one awaited vendor call together with the      *)
(* synchronous code that runs up to the next await: the event loop is      *)
(* cooperative, so nothing else can run in between.                        *)
(***************************************************************************)
EXTENDS Integers, Sequences, FiniteSets, TLC

\* ---------------------------------------------------------------- bounds
\* Number of buildings the vendor account holds.
NumBuildings == 2

\* Number of entity commands invoked in one behaviour.
MaxCommands == 1

\* ------------------------------------------------------- vendor universe
\* get_buildings() of the vendor account: the first NumBuildings buildings.
VendorBuildings == SubSeq(<<"b1", "b2", "b3">>, 1, NumBuildings)

\* The per-parameter getters of SensorlinxDevice, in the order the
\* coordinator calls them.
Reads ==
    << "temperatures", "permanent_heat_demand", "permanent_cool_demand",
       "hvac_mode", "hot_tank_min_temp", "hot_tank_max_temp",
       "cold_tank_min_temp", "cold_tank_max_temp", "firmware_version",
       "device_type", "warm_weather_shutdown", "cold_weather_shutdown" >>

ReadSet == {Reads[i] : i \in 1..Len(Reads)}

\* The device records get_devices(building_id) can return for a building:
\* fails is the set of getters that raise for the record, heat/cool/mode
\* what the demand and mode-priority getters return for it. syncCode ""
\* stands for a missing syncCode. Building b1 holds a thermostat reported
\* with a syncCode, building b2 a heat pump reported without one, and any
\* further building of the account holds no device.
Thermostat(f, h, m) ==
    [id |-> "I1", syncCode |-> "S1", type |-> "thermostat",
     fails |-> f, heat |-> h, cool |-> FALSE, mode |-> m]

HeatPump(b) ==
    [id |-> "I" \o b, syncCode |-> "", type |-> "heat_pump",
     fails |-> {}, heat |-> FALSE, cool |-> TRUE, mode |-> 2]

VendorDevice(b) ==
    IF b = "b1"
    THEN { Thermostat({}, TRUE, 0), Thermostat({}, FALSE, 1),
           Thermostat({}, FALSE, 3),
           Thermostat({"temperatures"}, FALSE, 0),
           Thermostat({"permanent_heat_demand", "hvac_mode",
                       "warm_weather_shutdown"}, FALSE, 0),
           Thermostat(ReadSet, FALSE, 0) }
    ELSE IF b = "b2" THEN { HeatPump(b) } ELSE {}

\* Results of get_devices(building_id): a list of device records (possibly
\* empty); raising is a separate outcome of the call.
VendorDeviceLists(b) == {<<>>} \cup {<<d>> : d \in VendorDevice(b)}

\* Variant: devices are keyed by their id, whether or not they have a
\* syncCode.
DeviceIdIgnoringSyncCode(device) == device.id

\* coordinator.py:74
DeviceId(device) == IF device.syncCode # "" THEN device.syncCode ELSE device.id

EmptyMap == <<>>

\* ------------------------------------------------- parameter extraction
\* get_temperatures(device_info=device): sensor name -> which of the
\* "actual"/"target" readings the vendor reports, with their values.
Temperatures(device) ==
    IF device.type = "thermostat"
    THEN { [name |-> "Hot Tank", actual |-> 120, target |-> 125] }
    ELSE { [name |-> "Cold Tank", actual |-> 45, target |-> 0] }

\* temp_name.lower().replace(' ', '_') on the sensor names the vendor uses.
TempKey(name) ==
    CASE name = "Hot Tank" -> "hot_tank"
      [] name = "Cold Tank" -> "cold_tank"
      [] OTHER -> "outdoor"

\* Variant: a code outside the table is passed on as "unknown".
ModeMapUnknown(code) ==
    CASE code = 0 -> "heat"
      [] code = 1 -> "cool"
      [] code = 2 -> "auto"
      [] OTHER -> "unknown"

\* coordinator.py:107-108, mode_map.get(hvac_mode, "auto")
ModeMap(code) ==
    CASE code = 0 -> "heat"
      [] code = 1 -> "cool"
      [] code = 2 -> "auto"
      [] OTHER -> "auto"

\* A one-key mapping.
One(k, v) == [x \in {k} |-> v]

\* Python values of the kinds the integration handles, tagged with their
\* type: None, a bool, a number, a str.
NoneVal == [t |-> "none", b |-> FALSE, n |-> 0, s |-> ""]
Bool(x) == [t |-> "bool", b |-> x, n |-> 0, s |-> ""]
Num(x)  == [t |-> "num", b |-> FALSE, n |-> x, s |-> ""]
Str(x)  == [t |-> "str", b |-> FALSE, n |-> 0, s |-> x]

\* dict update: the entries of upd override those of old.
Update(old, upd) == upd @@ old

\* coordinator.py:86-91: the keys written from one temperature reading.
\* A reading without a target (temp_data.get("target") falsy) writes no
\* target key.
TempEntries(t) ==
    LET a == One("temperature_" \o TempKey(t.name), Num(t.actual))
    IN  IF t.target # 0
        THEN Update(a, One("target_temperature_" \o TempKey(t.name),
                           Num(t.target)))
        ELSE a

RECURSIVE TempFold(_)
TempFold(ts) ==
    IF ts = {} THEN EmptyMap
    ELSE LET t == CHOOSE x \in ts : TRUE
         IN  Update(TempFold(ts \ {t}), TempEntries(t))

\* The value a successful getter returns and the entries the coordinator
\* writes into parameters for it (coordinator.py:85-151).
ReadEntries(r, device) ==
    CASE r = "temperatures" -> TempFold(Temperatures(device))
      [] r = "permanent_heat_demand" -> One(r, Bool(device.heat))
      [] r = "permanent_cool_demand" -> One(r, Bool(device.cool))
      [] r = "hvac_mode" -> One(r, Str(ModeMap(device.mode)))
      [] r = "hot_tank_min_temp" -> One(r, Num(90))
      [] r = "hot_tank_max_temp" -> One(r, Num(130))
      [] r = "cold_tank_min_temp" -> One(r, Num(40))
      [] r = "cold_tank_max_temp" -> One(r, Num(60))
      [] r = "firmware_version" -> One(r, Str("1.0"))
      [] r = "device_type" -> One(r, Str("HPC"))
      [] r = "warm_weather_shutdown" -> One(r, Num(32))
      [] OTHER -> One(r, Num(50))

\* Whether the read has a try/except of its own (coordinator.py:94-153).
\* get_temperatures (line 85) has none: only the outer handler of line 155
\* catches it.
Isolated(r) == r # "temperatures"

\* ------------------------------------------------------------------ state
VARIABLES
    data,                \* coordinator.data: <<>> for None, else <<snapshot>>
    last_update_success, \* coordinator.last_update_success
    refresh_requested,   \* a debounced async_request_refresh() is pending
    rpc,                 \* the await _async_update_data is suspended at
    buildings,           \* its local: the buildings list
    devices,             \* its local: device_id -> device record
    bi,                  \* index in buildings of the building being fetched
    building_devices,    \* its local: the devices of that building
    di,                  \* index in building_devices of the device in hand
    parameters,          \* its local: the mapping being extracted
    ri,                  \* index in Reads of the getter awaited next
    lastResult,          \* how the last finished refresh ended
    origin,              \* device_id -> the buildings whose get_devices
                         \* returned it in the refresh that built data
    raised,              \* buildings whose get_devices raised in this cycle
    fetched,             \* building -> device ids its get_devices returned
    readOk,              \* device_id -> getters that returned in this cycle
    entities,            \* device ids the platforms created entities for
    setup_done,          \* the platforms' async_setup_entry has run
    cmd,                 \* the entity command in flight / last finished
    created,             \* the entities async_setup_entry created, per key
    view,                \* the last state an entity reported: <<>> or <<read>>
    flow                 \* the config flow's user step

hostVars    == <<data, last_update_success, lastResult, origin>>
localVars   == <<buildings, devices, bi, building_devices, di, parameters, ri>>
historyVars == <<raised, fetched, readOk>>
entityVars  == <<entities, setup_done>>
entryVars   == <<created, view, flow>>
vars == <<data, last_update_success, refresh_requested, rpc, buildings,
          devices, bi, building_devices, di, parameters, ri, lastResult,
          origin, raised, fetched, readOk, entities, setup_done, cmd, created,
          view, flow>>

Profile == "profile"

\* What get_profile returns for an account without a profile: a falsy
\* value ("not profile" holds).
EmptyProfile == "empty"

\* Exceptions a vendor call can raise. The vendor client is independent of
\* the host framework, so what it raises is never ConfigEntryAuthFailed:
\* "Exception" stands for any of its errors (bad credentials, HTTP error,
\* timeout).
ErrorKinds == {"Exception"}

\* The modes async_set_hvac_mode is invoked with (HVACMode values).
CommandModes == {"cool", "off"}

\* What async_set_temperature is invoked with: kwargs without a temperature
\* (None) or a temperature in degrees Celsius.
CommandTemperatures == {NoneVal, Num(20)}

\* switch.py:24-43, SWITCH_DESCRIPTIONS
SwitchKeys == {"permanent_heat_demand", "permanent_cool_demand"}

\* The entity command: n counts the commands invoked so far, op is the
\* handler that runs, pc is "writing" while
\* its vendor write is awaited, "done" once it has returned to its caller
\* and "failed" if an exception reached the caller. device_id, key, mode,
\* arg and write (<<>> or <<the write in flight>>) are the command's locals,
\* gone when it returns; writes and requests count the vendor writes it
\* issued and the refresh requests it made, raisedWrite and raisedRequest
\* tell whether its write and its refresh request raised.
NoCmd == [pc |-> "idle", n |-> 0, op |-> "", device_id |-> "", key |-> "",
          mode |-> "", arg |-> NoneVal, write |-> <<>>,
          writes |-> 0, requests |-> 0, raisedWrite |-> FALSE,
          raisedRequest |-> FALSE]

\* config_flow.py:32-59: the user step. pc is where the step stands ("idle"
\* before the flow starts, "form" while the form is shown, "login",
\* "get_profile" and "close" while validate_input awaits that vendor call,
\* "entry" once the entry is created, "abort" when the account is already
\* configured); patched tells whether validate_input is replaced by a stub
\* that raises Exception, as tests/test_config_flow.py:50-53 does;
\* configured whether an entry of the same title exists already; pending is
\* what validate_input is about to leave with while its finally clause
\* runs; raisedBy the exception the last validate_input raised; errors the
\* "base" error of the form shown; closes the close() calls of the last
\* validate_input; profile what get_profile returned to it ("" while it has
\* not returned); entries the number of entries created.
NoFlow(patched, configured) ==
    [pc |-> "idle", patched |-> patched, configured |-> configured,
     pending |-> "", raisedBy |-> "", errors |-> "", closes |-> 0,
     profile |-> "", entries |-> 0]

\* Everything but data, as it is after construction.
StartState ==
    /\ last_update_success = TRUE
    /\ refresh_requested = FALSE
    /\ rpc = "idle"
    /\ buildings = <<>>
    /\ devices = EmptyMap
    /\ bi = 0
    /\ building_devices = <<>>
    /\ di = 0
    /\ parameters = EmptyMap
    /\ ri = 0
    /\ lastResult = "none"
    /\ origin = EmptyMap
    /\ raised = {}
    /\ fetched = EmptyMap
    /\ readOk = EmptyMap
    /\ entities = {}
    /\ setup_done = FALSE
    /\ cmd = NoCmd
    /\ created = {}
    /\ view = <<>>

Init ==
    /\ data = <<>>
    /\ StartState
    /\ flow = NoFlow(FALSE, FALSE)

\* ------------------------------------------ host: DataUpdateCoordinator
ResetLocals ==
    /\ rpc' = "idle"
    /\ buildings' = <<>>
    /\ devices' = EmptyMap
    /\ bi' = 0
    /\ building_devices' = <<>>
    /\ di' = 0
    /\ parameters' = EmptyMap
    /\ ri' = 0

\* coordinator.py:66-79, 158-160: for the devices a refresh stored, the
\* buildings whose get_devices call returned them in that refresh. The
\* snapshot itself keeps no such link: a stored device record is what the
\* vendor returned plus its parameters.
OriginOf(snapshot) ==
    [id \in {i \in DOMAIN snapshot.devices :
                \E b \in DOMAIN fetched : i \in fetched[b]}
        |-> {b \in DOMAIN fetched : id \in fetched[b]}]

\* The host stores the value _async_update_data returns as the new data.
HostPublish(snapshot) ==
    /\ data' = <<snapshot>>
    /\ last_update_success' = TRUE
    /\ lastResult' = "snapshot"
    /\ origin' = OriginOf(snapshot)
    /\ ResetLocals

\* The host records a refresh that raised; data keeps its value.
HostFail(error) ==
    /\ data' = data
    /\ last_update_success' = FALSE
    /\ lastResult' = error
    /\ origin' = origin
    /\ ResetLocals

\* Variant: no "except ConfigEntryAuthFailed: raise" clause, every
\* exception is wrapped.
HandleWrapsAll(exc) == "UpdateError"

\* Variant: no "except Exception" clause, other exceptions escape as they
\* are.
HandleLetsEscape(exc) ==
    IF exc = "ConfigEntryAuthFailed" THEN "AuthError" ELSE exc

\* coordinator.py:174-179: what _async_update_data raises for an exception
\* that reaches its outer handlers.
Handle(exc) ==
    IF exc = "ConfigEntryAuthFailed" THEN "AuthError" ELSE "UpdateError"

\* ------------------------------------------------ _async_update_data
\* coordinator.py:166-172
ReturnSnapshot(blds, devs) ==
    HostPublish([profile |-> Profile, buildings |-> blds, devices |-> devs])

\* coordinator.py:66-70: the loop over buildings reaches index i; it ends
\* in the return statement or suspends in the next get_devices call.
NextBuilding(blds, i, devs) ==
    IF i > Len(blds)
    THEN ReturnSnapshot(blds, devs)
    ELSE /\ rpc' = "get_devices"
         /\ buildings' = blds
         /\ devices' = devs
         /\ bi' = i
         /\ building_devices' = <<>>
         /\ di' = 0
         /\ parameters' = EmptyMap
         /\ ri' = 0
         /\ UNCHANGED hostVars

\* Variant: the devices mapping is built in the shared snapshot instead of
\* a local, so every step of the loop shows in coordinator.data.
NextDeviceInPlace(list, j, devs) ==
    IF j > Len(list)
    THEN NextBuilding(buildings, bi + 1, devs)
    ELSE /\ rpc' = "read"
         /\ devices' = devs
         /\ building_devices' = list
         /\ di' = j
         /\ parameters' = EmptyMap
         /\ ri' = 1
         /\ data' = <<[profile |-> Profile, buildings |-> buildings,
                       devices |-> devs]>>
         /\ UNCHANGED <<buildings, bi, last_update_success, lastResult,
                        origin>>

\* coordinator.py:73-85: the loop over a building's devices reaches index
\* j; it starts the extraction of that device (parameters = {}) and
\* suspends in get_temperatures, or goes on with the next building.
NextDevice(list, j, devs) ==
    IF j > Len(list)
    THEN NextBuilding(buildings, bi + 1, devs)
    ELSE /\ rpc' = "read"
         /\ devices' = devs
         /\ building_devices' = list
         /\ di' = j
         /\ parameters' = EmptyMap
         /\ ri' = 1
         /\ UNCHANGED <<buildings, bi, hostVars>>

\* Variant: the parameters extracted are merged into those the published
\* snapshot holds for the device.
StoreDeviceMerging(params) ==
    LET device == building_devices[di]
        old == IF data # <<>> /\ DeviceId(device) \in DOMAIN data[1].devices
               THEN data[1].devices[DeviceId(device)].parameters
               ELSE EmptyMap
        stored == Update(device, One("parameters", Update(old, params)))
    IN  NextDevice(building_devices, di + 1,
                   Update(devices, One(DeviceId(device), stored)))

\* coordinator.py:158-160: device["parameters"] = parameters;
\* devices[device_id] = device.
StoreDevice(params) ==
    LET device == building_devices[di]
        stored == Update(device, One("parameters", params))
    IN  NextDevice(building_devices, di + 1,
                   Update(devices, One(DeviceId(device), stored)))

\* After the getter at index ri: the next getter, or the end of the
\* extraction.
NextRead(params) ==
    IF ri + 1 > Len(Reads)
    THEN StoreDevice(params)
    ELSE /\ rpc' = "read"
         /\ ri' = ri + 1
         /\ parameters' = params
         /\ UNCHANGED <<buildings, devices, bi, building_devices, di, hostVars>>

\* The host's scheduler (periodic interval, or a debounced refresh request)
\* calls _async_update_data; it suspends in login (coordinator.py:36-42).
StartRefresh ==
    /\ rpc = "idle"
    /\ rpc' = "login"
    /\ refresh_requested' = FALSE
    /\ raised' = {}
    /\ fetched' = EmptyMap
    /\ readOk' = EmptyMap
    /\ UNCHANGED <<hostVars, localVars, entityVars, entryVars, cmd>>

\* coordinator.py:42-49: login returns.
LoginReturns ==
    /\ rpc = "login"
    /\ rpc' = "get_profile"
    /\ UNCHANGED <<hostVars, localVars, historyVars, entityVars, entryVars, cmd,
                   refresh_requested>>

\* coordinator.py:42-45, 174-179: login raises.
LoginRaise(exc) ==
    /\ rpc = "login"
    /\ HostFail(Handle(exc))
    /\ UNCHANGED <<historyVars, entityVars, entryVars, cmd, refresh_requested>>

LoginRaises == \E exc \in ErrorKinds : LoginRaise(exc)

\* coordinator.py:49-57: get_profile returns a profile.
ProfileReturns ==
    /\ rpc = "get_profile"
    /\ rpc' = "get_buildings"
    /\ UNCHANGED <<hostVars, localVars, historyVars, entityVars, entryVars, cmd,
                   refresh_requested>>

\* coordinator.py:49-52, 174-176: get_profile returns nothing;
\* ConfigEntryAuthFailed is raised and re-raised.
ProfileEmpty ==
    /\ rpc = "get_profile"
    /\ HostFail(Handle("ConfigEntryAuthFailed"))
    /\ UNCHANGED <<historyVars, entityVars, entryVars, cmd, refresh_requested>>

\* coordinator.py:49, 174-179: get_profile raises.
ProfileRaise(exc) ==
    /\ rpc = "get_profile"
    /\ HostFail(Handle(exc))
    /\ UNCHANGED <<historyVars, entityVars, entryVars, cmd, refresh_requested>>

ProfileRaises == \E exc \in ErrorKinds : ProfileRaise(exc)

\* coordinator.py:57-70: get_buildings returns the list, or nothing
\* (buildings = []).
BuildingsReturn ==
    /\ rpc = "get_buildings"
    /\ \E blds \in {VendorBuildings, <<>>} : NextBuilding(blds, 1, EmptyMap)
    /\ UNCHANGED <<historyVars, entityVars, entryVars, cmd, refresh_requested>>

\* coordinator.py:57, 174-179: get_buildings raises.
BuildingsRaise(exc) ==
    /\ rpc = "get_buildings"
    /\ HostFail(Handle(exc))
    /\ UNCHANGED <<historyVars, entityVars, entryVars, cmd, refresh_requested>>

BuildingsRaises == \E exc \in ErrorKinds : BuildingsRaise(exc)

\* coordinator.py:70-85, 161-162: get_devices returns a list.
DevicesReturn ==
    /\ rpc = "get_devices"
    /\ \E list \in VendorDeviceLists(buildings[bi]) :
          /\ NextDevice(list, 1, devices)
          /\ LET ids == {DeviceId(list[k]) : k \in 1..Len(list)}
             IN  /\ fetched' = Update(fetched, One(buildings[bi], ids))
                 /\ readOk' = Update(readOk, [id \in ids |-> {}])
    /\ UNCHANGED <<raised, entityVars, entryVars, cmd, refresh_requested>>

\* Variant: get_devices has no handler of its own, so its exception reaches
\* the outer handlers and fails the refresh.
BuildingExceptMissing(exc) == HostFail(Handle(exc))

\* coordinator.py:70, 163-164: get_devices raises; the building's handler
\* logs and the loop goes on.
BuildingExcept(exc) == NextBuilding(buildings, bi + 1, devices)

DevicesRaise ==
    /\ rpc = "get_devices"
    /\ \E exc \in ErrorKinds : BuildingExcept(exc)
    /\ raised' = raised \cup {buildings[bi]}
    /\ UNCHANGED <<fetched, readOk, entityVars, entryVars, cmd, refresh_requested>>

\* coordinator.py:85-153: the awaited getter returns; its entries are
\* written into parameters.
ReadReturns ==
    /\ rpc = "read"
    /\ LET device == building_devices[di]
           r == Reads[ri]
       IN  /\ r \notin device.fails
           /\ NextRead(Update(parameters, ReadEntries(r, device)))
           /\ readOk' = [readOk EXCEPT ![DeviceId(device)] = @ \cup {r}]
    /\ UNCHANGED <<raised, fetched, entityVars, entryVars, cmd, refresh_requested>>

\* Variant: the outer handler skips the device instead of storing it.
OuterExceptSkipsDevice(params) ==
    NextDevice(building_devices, di + 1, devices)

\* coordinator.py:94-156: the awaited getter raises. A getter with a
\* try/except of its own is skipped; otherwise the outer handler of line
\* 155 ends the extraction and the device is stored with what it has.
OuterExcept(params) == StoreDevice(params)

ReadRaises ==
    /\ rpc = "read"
    /\ LET device == building_devices[di]
           r == Reads[ri]
       IN  /\ r \in device.fails
           /\ IF Isolated(r)
              THEN NextRead(parameters)
              ELSE OuterExcept(parameters)
    /\ UNCHANGED <<historyVars, entityVars, entryVars, cmd, refresh_requested>>

Refresh ==
    \/ StartRefresh
    \/ LoginReturns \/ LoginRaises
    \/ ProfileReturns \/ ProfileEmpty \/ ProfileRaises
    \/ BuildingsReturn \/ BuildingsRaises
    \/ DevicesReturn \/ DevicesRaise
    \/ ReadReturns \/ ReadRaises

\* ------------------------------------------------------------ entities
\* "not self.coordinator.data or 'devices' not in self.coordinator.data"
HasDevices == data # <<>> /\ "devices" \in DOMAIN data[1]

\* Variant: the switch does not look its device up in the snapshot.
SwitchAvailableAnyDevice(device_id) ==
    /\ last_update_success
    /\ data # <<>>
    /\ "devices" \in DOMAIN data[1]

\* switch.py:169-177
SwitchAvailable(device_id) ==
    /\ last_update_success
    /\ data # <<>>
    /\ "devices" \in DOMAIN data[1]
    /\ device_id \in DOMAIN data[1].devices

\* binary_sensor.py:150-158
BinarySensorAvailable(device_id) ==
    /\ last_update_success
    /\ data # <<>>
    /\ "devices" \in DOMAIN data[1]
    /\ device_id \in DOMAIN data[1].devices

\* Variant: the sensor ignores last_update_success.
SensorAvailableStale(device_id) ==
    /\ data # <<>>
    /\ "devices" \in DOMAIN data[1]
    /\ device_id \in DOMAIN data[1].devices

\* sensor.py:191-199
SensorAvailable(device_id) ==
    /\ last_update_success
    /\ data # <<>>
    /\ "devices" \in DOMAIN data[1]
    /\ device_id \in DOMAIN data[1].devices

\* climate.py:256-264
ClimateAvailable(device_id) ==
    /\ last_update_success
    /\ data # <<>>
    /\ "devices" \in DOMAIN data[1]
    /\ device_id \in DOMAIN data[1].devices

Platforms == {"binary_sensor", "sensor", "switch", "climate"}

Available(platform, device_id) ==
    CASE platform = "binary_sensor" -> BinarySensorAvailable(device_id)
      [] platform = "sensor" -> SensorAvailable(device_id)
      [] platform = "switch" -> SwitchAvailable(device_id)
      [] OTHER -> ClimateAvailable(device_id)

\* -------------------------------------------------------- entity reads
\* dict.get(key): None for a missing key.
Get(map, key) == IF key \in DOMAIN map THEN map[key] ELSE NoneVal

\* bool(value)
Truthy(v) ==
    CASE v.t = "none" -> FALSE
      [] v.t = "bool" -> v.b
      [] v.t = "num" -> v.n # 0
      [] OTHER -> v.s # ""

\* isinstance(value, (int, float)): bool is a subclass of int.
IsNumber(v) == v.t \in {"bool", "num"}

\* The number a bool or a number compares as (True is 1, False is 0).
NumberOf(v) == IF v.t = "bool" THEN (IF v.b THEN 1 ELSE 0) ELSE v.n

\* str.lower() on the strings of the model.
Lower(s) ==
    CASE s = "HPC" -> "hpc"
      [] s = "Hot Tank" -> "hot tank"
      [] s = "Cold Tank" -> "cold tank"
      [] OTHER -> s

\* device.get("parameters", {}) of the entity's device.
ParametersOf(device_id) == data[1].devices[device_id].parameters

\* Variant: a present device whose key maps to no value reads as unknown,
\* as the binary sensor does.
SwitchIsOnUnknown(device_id, key) ==
    IF ~HasDevices THEN NoneVal
    ELSE IF device_id \notin DOMAIN data[1].devices THEN NoneVal
    ELSE LET value == Get(ParametersOf(device_id), key)
         IN  IF value = NoneVal THEN NoneVal ELSE Bool(Truthy(value))

\* switch.py:101-118
SwitchIsOn(device_id, key) ==
    IF ~HasDevices THEN NoneVal
    ELSE IF device_id \notin DOMAIN data[1].devices THEN NoneVal
    ELSE LET value == Get(ParametersOf(device_id), key)
         IN  IF value = NoneVal THEN Bool(FALSE) ELSE Bool(Truthy(value))

\* Variant: a shutdown threshold counts as enabled only above the sentinel.
BinarySensorIsOnAbove(device_id, key) ==
    IF ~HasDevices THEN NoneVal
    ELSE IF device_id \notin DOMAIN data[1].devices THEN NoneVal
    ELSE LET value == Get(ParametersOf(device_id), key)
         IN  IF value = NoneVal THEN NoneVal
             ELSE IF key \in {"permanent_heat_demand", "permanent_cool_demand"}
             THEN Bool(Truthy(value))
             ELSE IF key \in {"warm_weather_shutdown", "cold_weather_shutdown"}
             THEN (IF IsNumber(value) THEN Bool(NumberOf(value) > 32)
                   ELSE Bool(FALSE))
             ELSE IF value.t = "bool" THEN Bool(value.b)
             ELSE IF value.t = "num" THEN Bool(value.n > 0)
             ELSE Bool(Lower(value.s) \in {"true", "on", "1", "yes", "active"})

\* binary_sensor.py:116-148
BinarySensorIsOn(device_id, key) ==
    IF ~HasDevices THEN NoneVal
    ELSE IF device_id \notin DOMAIN data[1].devices THEN NoneVal
    ELSE LET value == Get(ParametersOf(device_id), key)
         IN  IF value = NoneVal THEN NoneVal
             ELSE IF key \in {"permanent_heat_demand", "permanent_cool_demand"}
             THEN Bool(Truthy(value))
             ELSE IF key \in {"warm_weather_shutdown", "cold_weather_shutdown"}
             THEN (IF IsNumber(value) THEN Bool(NumberOf(value) # 32)
                   ELSE Bool(FALSE))
             ELSE IF value.t = "bool" THEN Bool(value.b)
             ELSE IF value.t = "num" THEN Bool(value.n > 0)
             ELSE Bool(Lower(value.s) \in {"true", "on", "1", "yes", "active"})

\* Variant: the climate entity reports the mode of the command in flight
\* for it.
ClimateHvacModeOptimistic(device_id) ==
    IF /\ cmd.pc = "writing"
       /\ cmd.op = "async_set_hvac_mode"
       /\ cmd.device_id = device_id
    THEN Str(cmd.mode)
    ELSE IF ~HasDevices THEN NoneVal
    ELSE IF device_id \notin DOMAIN data[1].devices THEN NoneVal
    ELSE LET parameters_ == ParametersOf(device_id)
             mode == Lower(IF "hvac_mode" \in DOMAIN parameters_
                           THEN parameters_["hvac_mode"].s ELSE "")
         IN  CASE mode = "off" -> Str("off")
               [] mode = "heat" -> Str("heat")
               [] mode = "cool" -> Str("cool")
               [] mode = "auto" -> Str("auto")
               [] OTHER -> Str("auto")

\* climate.py:129-150
ClimateHvacMode(device_id) ==
    IF ~HasDevices THEN NoneVal
    ELSE IF device_id \notin DOMAIN data[1].devices THEN NoneVal
    ELSE LET parameters_ == ParametersOf(device_id)
             mode == Lower(IF "hvac_mode" \in DOMAIN parameters_
                           THEN parameters_["hvac_mode"].s ELSE "")
         IN  CASE mode = "off" -> Str("off")
               [] mode = "heat" -> Str("heat")
               [] mode = "cool" -> Str("cool")
               [] mode = "auto" -> Str("auto")
               [] OTHER -> Str("auto")

\* climate.py:108-126
ClimateTargetTemperature(device_id) ==
    IF ~HasDevices THEN NoneVal
    ELSE IF device_id \notin DOMAIN data[1].devices THEN NoneVal
    ELSE LET hvac_mode == ClimateHvacMode(device_id)
         IN  IF hvac_mode = Str("heat")
             THEN Get(ParametersOf(device_id), "target_temperature_hot_tank")
             ELSE IF hvac_mode = Str("cool")
             THEN Get(ParametersOf(device_id), "target_temperature_cold_tank")
             ELSE Get(ParametersOf(device_id), "target_temperature_hot_tank")

\* Variant: the action follows the mode the entity reads instead of the
\* demand flags.
ClimateHvacActionFromMode(device_id) ==
    IF ~HasDevices THEN NoneVal
    ELSE IF device_id \notin DOMAIN data[1].devices THEN NoneVal
    ELSE LET hvac_mode == ClimateHvacMode(device_id)
         IN  IF hvac_mode = Str("heat") THEN Str("heating")
             ELSE IF hvac_mode = Str("cool") THEN Str("cooling")
             ELSE IF hvac_mode # Str("off") THEN Str("idle")
             ELSE Str("off")

\* climate.py:152-172
ClimateHvacAction(device_id) ==
    IF ~HasDevices THEN NoneVal
    ELSE IF device_id \notin DOMAIN data[1].devices THEN NoneVal
    ELSE LET parameters_ == ParametersOf(device_id)
         IN  IF Truthy(Get(parameters_, "permanent_heat_demand"))
             THEN Str("heating")
             ELSE IF Truthy(Get(parameters_, "permanent_cool_demand"))
             THEN Str("cooling")
             ELSE IF ClimateHvacMode(device_id) # Str("off")
             THEN Str("idle")
             ELSE Str("off")

\* switch.py:45-69 (and the same loop of the other platforms): the devices
\* of the snapshot at setup get entities; without a snapshot none does.
\* Every device of the vendor universe is a thermostat or a heat pump, so
\* the climate platform (climate.py:35-45) creates an entity for it too.
SetupDevices == IF HasDevices THEN DOMAIN data[1].devices ELSE {}

\* The host sets the platforms up once, when no refresh is running.
Setup ==
    /\ ~setup_done
    /\ rpc = "idle"
    /\ setup_done' = TRUE
    /\ entities' = SetupDevices
    /\ UNCHANGED <<hostVars, localVars, historyVars, rpc, cmd,
                   refresh_requested, entryVars>>

\* ------------------------------------------------------------- commands
\* climate.py:238-241, switch.py:142-145: the id of the first building of
\* the snapshot, "" (None) without buildings.
FirstBuildingId ==
    IF Len(data[1].buildings) > 0 THEN data[1].buildings[1] ELSE ""

\* climate.py:228-245, climate.py:182-199, switch.py:132-149: the
\* conditions under which a command returns before any vendor call.
EarlyReturn(device_id) ==
    \/ ~HasDevices
    \/ device_id \notin DOMAIN data[1].devices
    \/ FirstBuildingId = ""

\* A command that returned before its first await.
ReturnedEarly(op) ==
    [NoCmd EXCEPT !.pc = "done", !.op = op, !.n = cmd.n + 1]

\* climate.py:247-251: the one vendor write of the command,
\* SensorlinxDevice(sensorlinx, building_id, device_id)
\*     .set_hvac_mode_priority(hvac_mode.value)
HvacModeWrite(device_id, hvac_mode) ==
    [op |-> "set_hvac_mode_priority", building_id |-> FirstBuildingId,
     device_id |-> device_id, value |-> Str(hvac_mode)]

\* climate.py:224-251: the command runs up to the awaited write, or
\* returns early.
SetHvacMode ==
    /\ cmd.pc # "writing"
    /\ cmd.n < MaxCommands
    /\ \E device_id \in entities, hvac_mode \in CommandModes :
          cmd' = IF EarlyReturn(device_id)
                 THEN ReturnedEarly("async_set_hvac_mode")
                 ELSE [NoCmd EXCEPT
                          !.pc = "writing",
                          !.n = cmd.n + 1,
                          !.op = "async_set_hvac_mode",
                          !.device_id = device_id,
                          !.mode = hvac_mode,
                          !.write = <<HvacModeWrite(device_id, hvac_mode)>>,
                          !.writes = 1]
    /\ UNCHANGED <<hostVars, localVars, historyVars, entityVars, entryVars, rpc,
                   refresh_requested>>

\* Temperature(temperature, "C").to_fahrenheit() of the vendor library, on
\* whole degrees.
ToFahrenheit(celsius) == (celsius * 9) \div 5 + 32

\* climate.py:203-218: the one vendor write of async_set_temperature. The
\* entity's unit is Celsius (climate.py:66), so the value is converted; the
\* setter is chosen by the mode the entity reads when the command runs.
TemperatureWrite(device_id, temperature) ==
    LET hvac_mode == ClimateHvacMode(device_id)
    IN  [op |-> IF hvac_mode = Str("heat") THEN "set_hot_tank_target_temp"
                ELSE IF hvac_mode = Str("cool")
                THEN "set_cold_tank_target_temp"
                ELSE "set_hot_tank_target_temp",
         building_id |-> FirstBuildingId,
         device_id |-> device_id,
         value |-> Num(ToFahrenheit(temperature.n))]

\* climate.py:174-218: kwargs without a temperature return at once; else
\* the command runs up to the awaited write, or returns early.
SetTemperature ==
    /\ cmd.pc # "writing"
    /\ cmd.n < MaxCommands
    /\ \E device_id \in entities, temperature \in CommandTemperatures :
          cmd' = IF temperature = NoneVal \/ EarlyReturn(device_id)
                 THEN ReturnedEarly("async_set_temperature")
                 ELSE [NoCmd EXCEPT
                          !.pc = "writing",
                          !.n = cmd.n + 1,
                          !.op = "async_set_temperature",
                          !.device_id = device_id,
                          !.arg = temperature,
                          !.write =
                              <<TemperatureWrite(device_id, temperature)>>,
                          !.writes = 1]
    /\ UNCHANGED <<hostVars, localVars, historyVars, entityVars, entryVars, rpc,
                   refresh_requested>>

\* switch.py:120-126: async_turn_on is _async_set_demand(True),
\* async_turn_off is _async_set_demand(False).
TurnOn == TRUE
TurnOff == FALSE

\* Variant: both switches call the heat-demand setter.
DemandWriteHeatOnly(device_id, key, state) ==
    [op |-> "set_permanent_hd",
     building_id |-> FirstBuildingId,
     device_id |-> device_id,
     value |-> Bool(state)]

\* switch.py:151-160: the one vendor write of _async_set_demand, chosen by
\* the key of the switch.
DemandWrite(device_id, key, state) ==
    [op |-> IF key = "permanent_heat_demand" THEN "set_permanent_hd"
            ELSE "set_permanent_cd",
     building_id |-> FirstBuildingId,
     device_id |-> device_id,
     value |-> Bool(state)]

\* switch.py:128-160: the command runs up to the awaited write, or returns
\* early.
SetDemand ==
    /\ cmd.pc # "writing"
    /\ cmd.n < MaxCommands
    /\ \E device_id \in entities, key \in SwitchKeys,
          state \in {TurnOn, TurnOff} :
          cmd' = IF EarlyReturn(device_id)
                 THEN ReturnedEarly("_async_set_demand")
                 ELSE [NoCmd EXCEPT
                          !.pc = "writing",
                          !.n = cmd.n + 1,
                          !.op = "_async_set_demand",
                          !.device_id = device_id,
                          !.key = key,
                          !.arg = Bool(state),
                          !.write = <<DemandWrite(device_id, key, state)>>,
                          !.writes = 1]
    /\ UNCHANGED <<hostVars, localVars, historyVars, entityVars, entryVars, rpc,
                   refresh_requested>>

\* The command returns to its caller: its locals are gone, its name, the
\* mode async_set_hvac_mode was invoked with and the counts stay.
Returned(c) == [c EXCEPT !.pc = "done", !.device_id = "", !.key = "",
                         !.arg = NoneVal, !.write = <<>>]

\* climate.py:219-220, 251-252, switch.py:162-163: the write returned, so
\* the refresh is requested.
WriteReturned(c) == Returned([c EXCEPT !.requests = @ + 1])

\* Variant: the refresh is requested in a finally clause, also after a write
\* that raised.
WriteRaisedRefreshing(c) ==
    Returned([c EXCEPT !.raisedWrite = TRUE, !.requests = @ + 1])

\* climate.py:221-222, 253-254, switch.py:165-167: the write raised, so the
\* handler logs and the refresh request is skipped.
WriteRaised(c) == Returned([c EXCEPT !.raisedWrite = TRUE])

\* Variant: the handler does not cover the refresh request, whose exception
\* reaches the caller.
RequestRaisedEscapes(c) ==
    [Returned([c EXCEPT !.requests = @ + 1, !.raisedRequest = TRUE])
        EXCEPT !.pc = "failed"]

\* climate.py:220-222, 252-254, switch.py:163-167: the refresh request
\* itself raised inside the try block, so the handler logs and the command
\* returns.
RequestRaised(c) ==
    Returned([c EXCEPT !.requests = @ + 1, !.raisedRequest = TRUE])

\* The write returns and the refresh request is accepted.
WriteReturns ==
    /\ cmd.pc = "writing"
    /\ cmd' = WriteReturned(cmd)
    /\ refresh_requested' = (refresh_requested \/ cmd'.requests > cmd.requests)
    /\ UNCHANGED <<hostVars, localVars, historyVars, entityVars, entryVars, rpc>>

\* The write raises.
WriteRaises ==
    /\ cmd.pc = "writing"
    /\ cmd' = WriteRaised(cmd)
    /\ refresh_requested' = (refresh_requested \/ cmd'.requests > cmd.requests)
    /\ UNCHANGED <<hostVars, localVars, historyVars, entityVars, entryVars, rpc>>

\* The write returns and the refresh request raises: no refresh is
\* scheduled by it.
RequestRaises ==
    /\ cmd.pc = "writing"
    /\ cmd' = RequestRaised(cmd)
    /\ UNCHANGED <<hostVars, localVars, historyVars, entityVars, entryVars, rpc,
                   refresh_requested>>

Command ==
    \/ SetHvacMode \/ SetTemperature \/ SetDemand
    \/ WriteReturns \/ WriteRaises \/ RequestRaises

Next == Refresh \/ Setup \/ Command

Spec == Init /\ [][Next]_vars

\* ------------------------------------------------------- platform setup
\* binary_sensor.py:22-43, BINARY_SENSOR_DESCRIPTIONS
BinarySensorKeys ==
    {"permanent_heat_demand", "permanent_cool_demand",
     "warm_weather_shutdown", "cold_weather_shutdown"}

\* sensor.py:30-105, SENSOR_DESCRIPTIONS
SensorKeys ==
    {"temperature_hot_tank", "temperature_cold_tank", "temperature_outdoor",
     "target_temperature_hot_tank", "target_temperature_cold_tank",
     "hot_tank_min_temp", "hot_tank_max_temp", "cold_tank_min_temp",
     "cold_tank_max_temp", "firmware_version", "device_type"}

\* const.py: DEVICE_TYPE_THERMOSTAT, DEVICE_TYPE_HEAT_PUMP
ClimateTypes == {"thermostat", "heat_pump"}

\* An entity: its platform, its device and the key of its description ("" for
\* the climate entity, which has none).
Entity(platform, device_id, key) ==
    [platform |-> platform, device_id |-> device_id, key |-> key]

\* Variant: a binary sensor is created for every description, whether or not
\* the device has the parameter.
BinarySensorSetupAll ==
    IF HasDevices
    THEN {Entity("binary_sensor", x[1], x[2]) :
            x \in (DOMAIN data[1].devices) \X BinarySensorKeys}
    ELSE {}

\* binary_sensor.py:59-85
BinarySensorSetup ==
    IF HasDevices
    THEN {Entity("binary_sensor", x[1], x[2]) :
            x \in {y \in (DOMAIN data[1].devices) \X BinarySensorKeys :
                      y[2] \in DOMAIN ParametersOf(y[1])}}
    ELSE {}

\* sensor.py:121-147
SensorSetup ==
    IF HasDevices
    THEN {Entity("sensor", x[1], x[2]) :
            x \in {y \in (DOMAIN data[1].devices) \X SensorKeys :
                      y[2] \in DOMAIN ParametersOf(y[1])}}
    ELSE {}

\* switch.py:45-69
SwitchSetup ==
    IF HasDevices
    THEN {Entity("switch", x[1], x[2]) :
            x \in (DOMAIN data[1].devices) \X SwitchKeys}
    ELSE {}

\* climate.py:35-45
ClimateSetup ==
    IF HasDevices
    THEN {Entity("climate", d, "") :
            d \in {y \in DOMAIN data[1].devices :
                      Lower(data[1].devices[y].type) \in ClimateTypes}}
    ELSE {}

\* The entities the four platforms add when the entry is set up.
SetupEntities ==
    BinarySensorSetup \cup SensorSetup \cup SwitchSetup \cup ClimateSetup

\* ------------------------------------ parameter extraction, as a function
\* coordinator.py:82-156 for one device record: the reads in order, a
\* raising isolated read skipped, a raising read without handler of its own
\* ending the extraction with what was gathered.
RECURSIVE ExtractFrom(_, _, _)
ExtractFrom(device, i, params) ==
    IF i > Len(Reads) THEN params
    ELSE IF Reads[i] \in device.fails
    THEN (IF Isolated(Reads[i]) THEN ExtractFrom(device, i + 1, params)
          ELSE params)
    ELSE ExtractFrom(device, i + 1,
                     Update(params, ReadEntries(Reads[i], device)))

\* coordinator.py:82, 158-159: parameters starts empty for every device.
ExtractParameters(device) == ExtractFrom(device, 1, EmptyMap)

\* ------------------------------------------------------ the config entry
\* What the demand getters can hand to the snapshot: None, a bool, 0 or 1.
DemandInputs == {NoneVal, Bool(TRUE), Bool(FALSE), Num(0), Num(1)}

\* What the shutdown getters can hand to the snapshot: None, the disabled
\* sentinel, other thresholds (zero and negative among them), a bool, and
\* something that is no number.
ShutdownInputs ==
    {NoneVal, Num(32), Num(0), Num(0 - 5), Num(50), Bool(TRUE), Str("off")}

\* The parameters mappings of the snapshots the entry's entities are read
\* over: those the coordinator extracts for the thermostat records of the
\* vendor universe, and mappings with a single demand or shutdown key.
EntryParameters ==
    {ExtractParameters(d) : d \in VendorDevice("b1")}
        \cup {One(x[1], x[2]) : x \in SwitchKeys \X DemandInputs}
        \cup {One(x[1], x[2]) :
                x \in {"warm_weather_shutdown", "cold_weather_shutdown"}
                        \X ShutdownInputs}

\* The snapshots a refresh can publish for the entry: one thermostat with
\* one of these mappings, or no device at all.
EntrySnapshots ==
    {[profile |-> Profile, buildings |-> VendorBuildings,
      devices |-> One("S1", Update(Thermostat({}, FALSE, 0),
                                   One("parameters", p)))] :
        p \in EntryParameters}
    \cup {[profile |-> Profile, buildings |-> VendorBuildings,
           devices |-> EmptyMap]}

\* config_flow.py:43-51: the error the user step shows for an exception of
\* validate_input (const.py:26-28).
StepUserHandle(exc) ==
    CASE exc = "CannotConnect" -> "cannot_connect"
      [] exc = "InvalidAuth" -> "auth_failed"
      [] OTHER -> "unknown"

\* config_flow.py:91-93: validate_input turns every exception of its try
\* block into CannotConnect.
ValidateHandle(exc) == "CannotConnect"

\* config_flow.py:57-59: the form is shown (again).
ShowForm(f, errors) == [f EXCEPT !.pc = "form", !.errors = errors,
                                 !.pending = ""]

\* config_flow.py:42-51, 57-59: validate_input raised.
ValidateRaised(f, exc) ==
    ShowForm([f EXCEPT !.raisedBy = exc], StepUserHandle(exc))

\* config_flow.py:52-55: validate_input returned; the flow aborts when the
\* unique id is configured already and creates the entry otherwise.
ValidateReturned(f) ==
    IF f.configured
    THEN [f EXCEPT !.pc = "abort", !.pending = ""]
    ELSE [f EXCEPT !.pc = "entry", !.pending = "", !.entries = @ + 1]

EntryInit ==
    /\ data = <<>>
    /\ StartState
    /\ flow \in {NoFlow(p, c) : p \in BOOLEAN, c \in BOOLEAN}

\* config_flow.py:35-38: the step is called without user input.
FlowStart ==
    /\ flow.pc = "idle"
    /\ flow' = ShowForm(flow, "")
    /\ UNCHANGED <<hostVars, localVars, historyVars, entityVars, rpc, cmd,
                   refresh_requested, created, view>>

\* config_flow.py:40-42, 76: the form is submitted and validate_input
\* starts, or its stub raises.
Submit ==
    /\ flow.pc = "form"
    /\ flow' = IF flow.patched
               THEN ValidateRaised([flow EXCEPT !.closes = 0,
                                                !.profile = ""], "Exception")
               ELSE [flow EXCEPT !.pc = "login", !.errors = "",
                                 !.raisedBy = "", !.closes = 0,
                                 !.profile = ""]
    /\ UNCHANGED <<hostVars, localVars, historyVars, entityVars, rpc, cmd,
                   refresh_requested, created, view>>

\* config_flow.py:80-83
FlowLoginReturns ==
    /\ flow.pc = "login"
    /\ flow' = [flow EXCEPT !.pc = "get_profile"]
    /\ UNCHANGED <<hostVars, localVars, historyVars, entityVars, rpc, cmd,
                   refresh_requested, created, view>>

\* config_flow.py:80, 91-95
FlowLoginRaises ==
    /\ flow.pc = "login"
    /\ \E exc \in ErrorKinds :
          flow' = [flow EXCEPT !.pc = "close", !.pending = ValidateHandle(exc)]
    /\ UNCHANGED <<hostVars, localVars, historyVars, entityVars, rpc, cmd,
                   refresh_requested, created, view>>

\* config_flow.py:83-89, 94-95
FlowProfileReturns ==
    /\ flow.pc = "get_profile"
    /\ flow' = [flow EXCEPT !.pc = "close", !.pending = "return",
                            !.profile = Profile]
    /\ UNCHANGED <<hostVars, localVars, historyVars, entityVars, rpc, cmd,
                   refresh_requested, created, view>>

\* config_flow.py:83-86, 91-95: an empty profile raises InvalidAuth inside
\* the try block.
FlowProfileEmpty ==
    /\ flow.pc = "get_profile"
    /\ flow' = [flow EXCEPT !.pc = "close",
                            !.pending = ValidateHandle("InvalidAuth"),
                            !.profile = EmptyProfile]
    /\ UNCHANGED <<hostVars, localVars, historyVars, entityVars, rpc, cmd,
                   refresh_requested, created, view>>

\* config_flow.py:83, 91-95
FlowProfileRaises ==
    /\ flow.pc = "get_profile"
    /\ \E exc \in ErrorKinds :
          flow' = [flow EXCEPT !.pc = "close", !.pending = ValidateHandle(exc)]
    /\ UNCHANGED <<hostVars, localVars, historyVars, entityVars, rpc, cmd,
                   refresh_requested, created, view>>

\* config_flow.py:94-95, 42-59: close() returns and validate_input leaves
\* with what was pending.
FlowCloseReturns ==
    /\ flow.pc = "close"
    /\ LET f == [flow EXCEPT !.closes = @ + 1]
       IN  flow' = IF flow.pending = "return" THEN ValidateReturned(f)
                   ELSE ValidateRaised(f, flow.pending)
    /\ UNCHANGED <<hostVars, localVars, historyVars, entityVars, rpc, cmd,
                   refresh_requested, created, view>>

\* config_flow.py:94-95, 42-59: close() raises in the finally clause, and
\* its exception is the one that leaves validate_input.
FlowCloseRaises ==
    /\ flow.pc = "close"
    /\ \E exc \in ErrorKinds :
          flow' = ValidateRaised([flow EXCEPT !.closes = @ + 1], exc)
    /\ UNCHANGED <<hostVars, localVars, historyVars, entityVars, rpc, cmd,
                   refresh_requested, created, view>>

Flow ==
    \/ FlowStart \/ Submit
    \/ FlowLoginReturns \/ FlowLoginRaises
    \/ FlowProfileReturns \/ FlowProfileEmpty \/ FlowProfileRaises
    \/ FlowCloseReturns \/ FlowCloseRaises

\* A refresh of the entry's coordinator returns a snapshot; the entities
\* write their state anew.
EntryPublish ==
    /\ flow.pc = "entry"
    /\ \E snapshot \in EntrySnapshots : HostPublish(snapshot)
    /\ view' = <<>>
    /\ UNCHANGED <<historyVars, entityVars, cmd, refresh_requested, created,
                   flow>>

\* The host sets the platforms of the created entry up, once.
SetupEntry ==
    /\ flow.pc = "entry"
    /\ ~setup_done
    /\ setup_done' = TRUE
    /\ created' = SetupEntities
    /\ entities' = {e.device_id : e \in SetupEntities}
    /\ UNCHANGED <<hostVars, localVars, historyVars, rpc, cmd,
                   refresh_requested, view, flow>>

\* switch.py:101-118: the host reads is_on of a switch.
ReadSwitch ==
    /\ \E e \in created :
          /\ e.platform = "switch"
          /\ view' = <<[entity |-> e,
                        is_on |-> SwitchIsOn(e.device_id, e.key)]>>
    /\ UNCHANGED <<hostVars, localVars, historyVars, entityVars, rpc, cmd,
                   refresh_requested, created, flow>>

\* binary_sensor.py:116-148: the host reads is_on of a binary sensor.
ReadBinarySensor ==
    /\ \E e \in created :
          /\ e.platform = "binary_sensor"
          /\ view' = <<[entity |-> e,
                        is_on |-> BinarySensorIsOn(e.device_id, e.key)]>>
    /\ UNCHANGED <<hostVars, localVars, historyVars, entityVars, rpc, cmd,
                   refresh_requested, created, flow>>

EntryNext ==
    Flow \/ EntryPublish \/ SetupEntry \/ ReadSwitch \/ ReadBinarySensor

SpecEntry == EntryInit /\ [][EntryNext]_vars

\* ------------------------------------------------------------ properties
\* The keys the coordinator writes for a set of getters that returned.
KeysOf(reads, device) == UNION {DOMAIN ReadEntries(r, device) : r \in reads}

\* The set of elements of a sequence.
Range(seq) == {seq[i] : i \in 1..Len(seq)}

C2_EveryReadIsolated ==
    \A id \in DOMAIN devices :
        KeysOf(ReadSet \ devices[id].fails, devices[id])
            \subseteq DOMAIN devices[id].parameters

\* C3: when get_devices raised for a building during a refresh, the refresh
\* ends with a snapshot, every other building of the list was fetched and
\* all the devices it returned are in the snapshot's devices.
C3_OtherBuildingsKept ==
    (rpc = "idle" /\ raised # {}) =>
        /\ lastResult = "snapshot"
        /\ last_update_success
        /\ data # <<>>
        /\ \A b \in Range(data[1].buildings) \ raised :
              /\ b \in DOMAIN fetched
              /\ fetched[b] \subseteq DOMAIN data[1].devices

\* C3 witness: get_devices raised for the first building and the snapshot
\* holds the device of the building iterated after it.
C3_Witness ==
    /\ rpc = "idle"
    /\ raised = {"b1"}
    /\ lastResult = "snapshot"
    /\ "Ib2" \in DOMAIN data[1].devices

\* C4: every device a successful get_devices returned in the last finished
\* refresh is in the snapshot's devices, and its parameters hold exactly
\* the keys of the getters that returned for it; devices stored so far by a
\* running refresh likewise.
C4_DeviceKeptWithSucceededKeys ==
    /\ (rpc = "idle" /\ lastResult = "snapshot") =>
          \A id \in DOMAIN readOk :
              /\ id \in DOMAIN data[1].devices
              /\ DOMAIN data[1].devices[id].parameters
                    = KeysOf(readOk[id], data[1].devices[id])
    /\ \A id \in DOMAIN devices :
          /\ id \in DOMAIN readOk
          /\ DOMAIN devices[id].parameters = KeysOf(readOk[id], devices[id])

\* C4 witness: a published snapshot holds a device for which some getters
\* raised (hvac_mode among them) and others returned.
C4_Witness ==
    /\ rpc = "idle"
    /\ lastResult = "snapshot"
    /\ "S1" \in DOMAIN readOk
    /\ readOk["S1"] # {}
    /\ readOk["S1"] # ReadSet
    /\ "hvac_mode" \notin DOMAIN data[1].devices["S1"].parameters

\* C5 (as stated): whenever login raises, the refresh fails with AuthError.
C5_LoginFailureIsAuthError ==
    [][(rpc = "login" /\ rpc' = "idle") => lastResult' = "AuthError"]_vars

\* C6: when get_profile returns no profile, the refresh ends with AuthError
\* (not UpdateError) without calling get_buildings or get_devices, and the
\* published snapshot stays what it was.
C6_EmptyProfileIsAuthError ==
    [][ProfileEmpty =>
          /\ lastResult' = "AuthError"
          /\ ~last_update_success'
          /\ rpc' = "idle"
          /\ data' = data
          /\ fetched' = EmptyMap /\ raised' = {} ]_vars

\* C6 witness: a refresh has ended with AuthError (which only an empty
\* profile causes) after a snapshot had been published, and that snapshot
\* is still the data.
C6_Witness ==
    /\ rpc = "idle"
    /\ lastResult = "AuthError"
    /\ data # <<>>
    /\ fetched = EmptyMap

\* C7: a refresh ends with a snapshot of profile, buildings and devices,
\* with AuthError or with UpdateError, and with nothing else; an exception
\* of get_profile or get_buildings other than ConfigEntryAuthFailed ends
\* it with UpdateError.
C7_ThreeOutcomes ==
    [][(rpc # "idle" /\ rpc' = "idle") =>
          /\ lastResult' \in {"snapshot", "AuthError", "UpdateError"}
          /\ lastResult' = "snapshot" =>
                /\ last_update_success'
                /\ data' # <<>>
                /\ DOMAIN data'[1] = {"profile", "buildings", "devices"}
          /\ lastResult' # "snapshot" => ~last_update_success' /\ data' = data
          /\ (ProfileRaise("Exception") \/ BuildingsRaise("Exception"))
                => lastResult' = "UpdateError" ]_vars

\* C7 witness: a refresh has ended with UpdateError after an earlier one
\* had published a snapshot.
C7_Witness == rpc = "idle" /\ lastResult = "UpdateError" /\ data # <<>>

\* C8: for every entity of every platform, available is true exactly when
\* the last finished refresh returned a snapshot, data holds a snapshot and
\* the entity's device id is a key of its devices.
C8_AvailableIff ==
    \A platform \in Platforms, id \in entities :
        Available(platform, id) <=>
            /\ lastResult = "snapshot"
            /\ data # <<>>
            /\ id \in DOMAIN data[1].devices

\* C8 witness: the last refresh succeeded and its snapshot no longer holds
\* the device of an existing entity, which is unavailable.
C8_Witness ==
    /\ lastResult = "snapshot"
    /\ \E id \in entities :
          /\ id \notin DOMAIN data[1].devices
          /\ \A platform \in Platforms : ~Available(platform, id)

\* C9: while the last finished refresh is one that failed, no entity is
\* available, although data still holds the snapshot published before;
\* once a refresh has returned a snapshot, every entity whose device id is
\* in it is available.
C9_UnavailableUntilNextSuccess ==
    /\ lastResult \in {"UpdateError", "AuthError"} =>
          \A platform \in Platforms, id \in entities :
              ~Available(platform, id)
    /\ lastResult = "snapshot" =>
          \A platform \in Platforms, id \in entities :
              id \in DOMAIN data[1].devices => Available(platform, id)

\* C9 witness: the last refresh failed with UpdateError, the snapshot
\* published before still holds the device of an entity, and the entity is
\* unavailable.
C9_Witness ==
    /\ lastResult = "UpdateError"
    /\ data # <<>>
    /\ \E id \in entities :
          /\ id \in DOMAIN data[1].devices
          /\ ~Available("sensor", id)

\* C10: data changes only in the step in which a refresh returns, and then
\* to the complete snapshot of that cycle: every building of its list was
\* fetched or raised, and every device fetched is stored with the keys of
\* all the getters that returned for it. While a refresh is running, and
\* when it fails, data keeps the value published before.
C10_PublishedWholesale ==
    [][data' # data =>
          /\ rpc # "idle"
          /\ rpc' = "idle"
          /\ lastResult' = "snapshot"
          /\ data'[1].profile = Profile
          /\ Range(data'[1].buildings) = raised' \cup DOMAIN fetched'
          /\ DOMAIN data'[1].devices = DOMAIN readOk'
          /\ \A id \in DOMAIN readOk' :
                DOMAIN data'[1].devices[id].parameters
                    = KeysOf(readOk'[id], data'[1].devices[id]) ]_vars

\* C10 witness: a refresh is in the middle of a device's extraction, with
\* devices and parameters partly built, while data holds the snapshot of an
\* earlier cycle with other devices.
C10_Witness ==
    /\ rpc = "read"
    /\ ri > 1
    /\ parameters # EmptyMap
    /\ data # <<>>
    /\ DOMAIN devices # {}
    /\ DOMAIN devices # DOMAIN data[1].devices

\* What the writable entities of a device report: is_on of its two demand
\* switches, hvac_mode and target_temperature of its climate entity.
Reported(id) ==
    [heat |-> SwitchIsOn(id, "permanent_heat_demand"),
     cool |-> SwitchIsOn(id, "permanent_cool_demand"),
     hvac_mode |-> ClimateHvacMode(id),
     target_temperature |-> ClimateTargetTemperature(id)]

\* C11: no step of a write command (its start, the return or the raise of
\* its write, its refresh request: the steps that change cmd) changes the
\* published snapshot; the snapshot changes only in the step in which a
\* refresh returns; and in every step that leaves the snapshot alone
\* is_on, hvac_mode and target_temperature read for every entity what they
\* read before the step.
C11_NoOptimisticUpdate ==
    [][ /\ cmd' # cmd => data' = data
        /\ \/ /\ data' # data
              /\ rpc # "idle"
              /\ rpc' = "idle"
              /\ lastResult' = "snapshot"
           \/ /\ data' = data
              /\ \A id \in entities : Reported(id)' = Reported(id) ]_vars

\* C11 witness: turn_on of the heat-demand switch of a device in the
\* snapshot has issued its write, a set-temperature or set-mode command
\* aside, and the switch still reads off.
C11_Witness ==
    /\ cmd.pc = "writing"
    /\ cmd.op = "_async_set_demand"
    /\ cmd.key = "permanent_heat_demand"
    /\ cmd.arg = Bool(TRUE)
    /\ HasDevices
    /\ cmd.device_id \in DOMAIN data[1].devices
    /\ SwitchIsOn(cmd.device_id, cmd.key) = Bool(FALSE)

\* C12: a write command whose vendor write or whose refresh request raises
\* returns normally: no exception reaches its caller, and the step in which
\* it raises leaves the published snapshot and last_update_success as they
\* were.
C12_ErrorsCaught ==
    /\ [](cmd.pc # "failed")
    /\ [][(/\ cmd.pc = "writing"
            /\ cmd'.pc # "writing"
            /\ (cmd'.raisedWrite \/ cmd'.raisedRequest)) =>
             /\ cmd'.pc = "done"
             /\ data' = data
             /\ last_update_success' = last_update_success]_vars

\* C12 witness: a switch command has returned after its refresh request
\* raised, with a snapshot published and the last refresh successful.
C12_Witness ==
    /\ cmd.pc = "done"
    /\ cmd.op = "_async_set_demand"
    /\ cmd.raisedRequest
    /\ data # <<>>
    /\ last_update_success

\* The commands of the writable adapters C13 names.
AdapterCommands == {"_async_set_demand", "async_set_temperature"}

C14_SwitchAbsentIsOff ==
    (/\ view # <<>>
     /\ view[1].entity.platform = "switch"
     /\ HasDevices
     /\ view[1].entity.device_id \in DOMAIN data[1].devices) =>
        LET p == data[1].devices[view[1].entity.device_id].parameters
            k == view[1].entity.key
        IN  /\ view[1].is_on # NoneVal
            /\ (k \notin DOMAIN p \/ p[k] = NoneVal) =>
                  view[1].is_on = Bool(FALSE)
            /\ (k \in DOMAIN p /\ p[k] # NoneVal) =>
                  view[1].is_on =
                      Bool(CASE p[k].t = "bool" -> p[k].b
                             [] p[k].t = "num" -> p[k].n # 0
                             [] OTHER -> p[k].s # "")

\* C14 witness: the heat-demand switch of a device in the snapshot was read
\* while the device's parameters lack its key, and it read off.
C14_Witness ==
    /\ view # <<>>
    /\ view[1].entity = Entity("switch", "S1", "permanent_heat_demand")
    /\ HasDevices
    /\ "S1" \in DOMAIN data[1].devices
    /\ "permanent_heat_demand" \notin DOMAIN data[1].devices["S1"].parameters
    /\ view[1].is_on = Bool(FALSE)

\* C15: whenever a warm- or cold-weather-shutdown binary sensor of a device
\* in the snapshot is read over a numeric parameter value, is_on is false if
\* the value is 32 and true for every other number.
C15_ShutdownSentinel ==
    (/\ view # <<>>
     /\ view[1].entity.platform = "binary_sensor"
     /\ view[1].entity.key \in {"warm_weather_shutdown",
                                 "cold_weather_shutdown"}
     /\ HasDevices
     /\ view[1].entity.device_id \in DOMAIN data[1].devices) =>
        LET p == data[1].devices[view[1].entity.device_id].parameters
            k == view[1].entity.key
        IN  (k \in DOMAIN p /\ p[k].t = "num") =>
                view[1].is_on = Bool(p[k].n # 32)

\* C15 witness: the warm-weather-shutdown binary sensor was read over a
\* negative threshold and read on.
C15_Witness ==
    /\ view # <<>>
    /\ view[1].entity = Entity("binary_sensor", "S1", "warm_weather_shutdown")
    /\ HasDevices
    /\ "S1" \in DOMAIN data[1].devices
    /\ Get(data[1].devices["S1"].parameters, "warm_weather_shutdown")
          = Num(0 - 5)
    /\ view[1].is_on = Bool(TRUE)

\* C16: the step that sets the platforms up creates, for every device of
\* the snapshot, a binary_sensor and a sensor entity for exactly the
\* described keys that are in the device's parameters, and both demand
\* switches whatever the parameters hold; it creates nothing for anything
\* that is not a device of the snapshot, so nothing without a snapshot.
C16_EntitiesCreated ==
    [][(~setup_done /\ setup_done') =>
          /\ data = <<>> => created' = {}
          /\ \A e \in created' :
                data # <<>> /\ e.device_id \in DOMAIN data[1].devices
          /\ data # <<>> =>
                \A d \in DOMAIN data[1].devices :
                    /\ \A k \in BinarySensorKeys :
                          Entity("binary_sensor", d, k) \in created'
                              <=> k \in DOMAIN data[1].devices[d].parameters
                    /\ \A k \in SensorKeys :
                          Entity("sensor", d, k) \in created'
                              <=> k \in DOMAIN data[1].devices[d].parameters
                    /\ \A k \in SwitchKeys :
                          Entity("switch", d, k) \in created' ]_vars

\* C16 witness: after setup there is a binary sensor of a device for one
\* key, none for its heat-demand key, and its heat-demand switch.
C16_Witness ==
    /\ setup_done
    /\ Entity("binary_sensor", "S1", "warm_weather_shutdown") \in created
    /\ Entity("binary_sensor", "S1", "permanent_heat_demand") \notin created
    /\ Entity("switch", "S1", "permanent_heat_demand") \in created

\* C17 (as stated): whenever the form is shown again after validate_input
\* raised, its errors are {"base": "cannot_connect"} and no entry was
\* created.
C17_AnyExceptionIsCannotConnect ==
    (flow.pc = "form" /\ flow.raisedBy # "") =>
        flow.errors = "cannot_connect" /\ flow.entries = 0

\* A stored device record without the parameters the coordinator added: the
\* record as get_devices returned it.
VendorRecord(rec) == [f \in DOMAIN rec \ {"parameters"} |-> rec[f]]

\* C18: after a refresh that returned a snapshot, the keys of its devices
\* are exactly the ids of the devices the get_devices calls of that refresh
\* returned, over all buildings of the list; every key is the syncCode of
\* the record it maps to when the record has one and its id otherwise, and
\* the record is the one get_devices returned for a building of the list.
\* The key depends on nothing but the record's syncCode and id: two
\* snapshots key records of the same syncCode and id alike.
C18_DevicesKeyedByStableId ==
    /\ []((rpc = "idle" /\ lastResult = "snapshot") =>
            /\ DOMAIN data[1].devices
                  = UNION {fetched[b] : b \in DOMAIN fetched}
            /\ DOMAIN fetched \subseteq Range(data[1].buildings)
            /\ \A k \in DOMAIN data[1].devices :
                  LET rec == data[1].devices[k]
                  IN  /\ k = (IF rec.syncCode # "" THEN rec.syncCode
                                                   ELSE rec.id)
                      /\ \E b \in DOMAIN fetched :
                            /\ k \in fetched[b]
                            /\ VendorRecord(rec) \in VendorDevice(b))
    /\ [][(data # <<>> /\ data' # <<>>) =>
             \A k \in DOMAIN data[1].devices, k2 \in DOMAIN data'[1].devices :
                 (/\ data[1].devices[k].syncCode
                        = data'[1].devices[k2].syncCode
                  /\ data[1].devices[k].id = data'[1].devices[k2].id)
                     => k = k2]_vars

\* C18 witness: a snapshot holds the devices of two buildings, one keyed by
\* its syncCode and one, reported without syncCode, by its id.
C18_Witness ==
    /\ rpc = "idle"
    /\ lastResult = "snapshot"
    /\ DOMAIN data[1].devices = {"S1", "Ib2"}
    /\ data[1].devices["S1"].id = "I1"
    /\ data[1].devices["Ib2"].syncCode = ""

\* C19: for every device a refresh stores, in the running cycle or in the
\* published snapshot: when its mode-priority read raises, its parameters
\* have no hvac_mode key; when the read is made and returns code c, they
\* hold hvac_mode "heat" for c = 0, "cool" for c = 1 and "auto" for c = 2
\* and for every other c.
C19_ModeMapped ==
    \A rec \in {devices[k] : k \in DOMAIN devices}
               \cup (IF data = <<>> THEN {}
                     ELSE {data[1].devices[k] : k \in DOMAIN data[1].devices}) :
        /\ "hvac_mode" \in rec.fails =>
              "hvac_mode" \notin DOMAIN rec.parameters
        /\ ("hvac_mode" \notin rec.fails /\ "temperatures" \notin rec.fails) =>
              /\ "hvac_mode" \in DOMAIN rec.parameters
              /\ rec.parameters["hvac_mode"] =
                    Str(IF rec.mode = 0 THEN "heat"
                        ELSE IF rec.mode = 1 THEN "cool" ELSE "auto")

\* C19 witness: the published snapshot holds a device whose mode-priority
\* read returned the code 3, with hvac_mode "auto".
C19_Witness ==
    /\ HasDevices
    /\ "S1" \in DOMAIN data[1].devices
    /\ data[1].devices["S1"].mode = 3
    /\ Get(data[1].devices["S1"].parameters, "hvac_mode") = Str("auto")

\* C20: the devices mapping of a snapshot is a function of what the vendor
\* returned in the refresh that built it, and of nothing else: its keys are
\* the ids get_devices returned in that refresh, and every record is the
\* vendor's record with the parameters extracted from it, starting from an
\* empty mapping. So two refreshes in which the vendor returns the same
\* have equal devices mappings, whatever the snapshot held before.
C20_SnapshotFromScratch ==
    (rpc = "idle" /\ lastResult = "snapshot") =>
        /\ DOMAIN data[1].devices = UNION {fetched[b] : b \in DOMAIN fetched}
        /\ \A k \in DOMAIN data[1].devices :
              LET rec == data[1].devices[k]
              IN  rec = Update(VendorRecord(rec),
                               One("parameters",
                                   ExtractParameters(VendorRecord(rec))))

\* C20 witness: a refresh that started after a finished command had
\* requested it, so not the first one, has returned a snapshot in which the
\* thermostat, for which some getters raise, has fewer keys than a full
\* extraction gives.
C20_Witness ==
    /\ rpc = "idle"
    /\ lastResult = "snapshot"
    /\ cmd.pc = "done"
    /\ cmd.requests = 1
    /\ ~cmd.raisedRequest
    /\ ~refresh_requested
    /\ "S1" \in DOMAIN data[1].devices
    /\ data[1].devices["S1"].fails # {}
    /\ "temperature_hot_tank" \in DOMAIN data[1].devices["S1"].parameters
    /\ "hvac_mode" \notin DOMAIN data[1].devices["S1"].parameters

\* C21: every vendor write a command issues for a device is addressed to a
\* building whose get_devices call returned that device in the refresh that
\* built the current snapshot, also when the snapshot holds more than one
\* building; a write is never addressed to a building that does not
\* contain its device.
C21_WriteScopedToDeviceBuilding ==
    [][(cmd.pc # "writing" /\ cmd'.pc = "writing") =>
          LET write == cmd'.write[1]
          IN  /\ write.device_id \in DOMAIN origin
              /\ write.building_id \in origin[write.device_id] ]_vars

\* validate_input has left: the form is shown again with what it raised, or
\* it returned and the flow created the entry or aborted.
ValidateLeft ==
    /\ ~flow.patched
    /\ \/ flow.pc \in {"entry", "abort"}
       \/ flow.pc = "form" /\ flow.raisedBy # ""

\* C22: when login succeeds but get_profile returns an empty profile (and
\* close() returns), validate_input fails with InvalidAuth and the form is
\* shown again with the error auth_failed, not cannot_connect; on every
\* path validate_input closes the vendor session exactly once before it
\* returns or raises.
C22_EmptyProfileIsAuthFailed ==
    /\ (ValidateLeft /\ flow.profile = EmptyProfile
            /\ flow.raisedBy \notin ErrorKinds) =>
          /\ flow.pc = "form"
          /\ flow.raisedBy = "InvalidAuth"
          /\ flow.errors = "auth_failed"
    /\ ValidateLeft => flow.closes = 1

\* C23: for every snapshot a refresh published and every device in it, the
\* climate entity's hvac_mode is heat, cool or auto (auto when the snapshot
\* has no hvac_mode key for the device) and never off, and its hvac_action
\* is heating when permanent_heat_demand is truthy, else cooling when
\* permanent_cool_demand is truthy, else idle, and never off; whatever
\* command ran before the refresh, async_set_hvac_mode(OFF) included.
C23_NeverOff ==
    HasDevices =>
        \A id \in DOMAIN data[1].devices :
            LET params == data[1].devices[id].parameters
                heat == "permanent_heat_demand" \in DOMAIN params
                            /\ Truthy(params["permanent_heat_demand"])
                cool == "permanent_cool_demand" \in DOMAIN params
                            /\ Truthy(params["permanent_cool_demand"])
            IN  /\ ClimateHvacMode(id) \in {Str("heat"), Str("cool"), Str("auto")}
                /\ "hvac_mode" \notin DOMAIN params =>
                      ClimateHvacMode(id) = Str("auto")
                /\ ClimateHvacAction(id) =
                      (IF heat THEN Str("heating")
                       ELSE IF cool THEN Str("cooling") ELSE Str("idle"))
                /\ ClimateHvacAction(id) # Str("off")

\* C23 witness: async_set_hvac_mode(OFF) wrote and requested a refresh, a
\* refresh started after that has published a snapshot, and the climate
\* entity of the thermostat reads mode cool and action idle from it.
C23_Witness ==
    /\ cmd.pc = "done"
    /\ cmd.op = "async_set_hvac_mode"
    /\ cmd.mode = "off"
    /\ cmd.requests = 1
    /\ ~cmd.raisedRequest
    /\ ~refresh_requested
    /\ rpc = "idle"
    /\ lastResult = "snapshot"
    /\ HasDevices
    /\ "S1" \in DOMAIN data[1].devices
    /\ ClimateHvacMode("S1") = Str("cool")
    /\ ClimateHvacAction("S1") = Str("idle")
====
